---- MODULE Spec2Model ----
(***************************************************************************)
(* Model of the JNI bindings of the pentagram AirPlay receiver:            *)
(*   fairplay_jni.c       the process-wide FairPlay handshake engine       *)
(*   mirror_buffer_jni.c  the per-stream mirror buffer decryptor           *)
(* The bindings are modelled from their source.  The library behind them   *)
(* (fairplay.h, mirror_buffer.h) is not part of the sources at hand; its   *)
(* operators, named fairplay_... and mirror_buffer_..., follow the written *)
(* specification of the HandshakeEngine and the StreamDecryptor.           *)
(***************************************************************************)
EXTENDS Integers, Sequences, FiniteSets, TLC

(* ------------------------------ bounds --------------------------------- *)
\* number of engine creation attempts made by nativeInit in one run
MaxInits == 2
\* number of mirror buffers nativeInit (MirrorBufferDecryptor) creates in one run
MaxBuffers == 2
\* length of the short (not block aligned) inputs of nativeDecrypt
MaxLen == 5
\* the byte offset of a stream up to which Decrypt calls are explored
MaxOffset == 21

(* -------------------------- program constants -------------------------- *)
SETUP_REQ_LEN == 16
SETUP_RES_LEN == 142
HANDSHAKE_REQ_LEN == 164
HANDSHAKE_RES_LEN == 32
EKEY_LEN == 72
AESKEY_OUT_LEN == 16
MIRROR_KEY_LEN == 16
RAOP_AESIV_LEN == 16

NULL == 0

\* lengths of the byte arrays a caller hands to the FairPlay bindings
ReqLens == {0, 15, 16, 17, 72, 164}
\* lengths of the key arrays a caller hands to MirrorBufferDecryptor.nativeInit
KeyLens == {0, 15, 16, 17}
\* content keys (identities of distinct 16-byte keys)
Keys == {1, 2}
\* stream connection identifiers (non-negative, so the cast of the jlong to
\* uint64_t keeps the value)
SIDs == {1, 2}
\* byte patterns from which the inputs of Decrypt are generated
Seeds == {0, 1}

VARIABLES
    g_fairplay,   \* fairplay_jni.c: the global engine pointer (NULL or an engine id)
    engines,      \* heap: engine id -> the fairplay_t allocated by that attempt
    loggers,      \* heap: logger id -> state of the logger_t of that attempt
    nInits,       \* number of creation attempts made so far
    buffers,      \* heap: handle -> the mirror_buffer_t behind it
    nBuffers,     \* number of mirror buffers allocated so far
    fault,        \* the process has faulted (an outcome of undefined behaviour)
    failRet,      \* history: failure class -> values returned for failures of it
    last          \* the last binding call: operation, input, path taken, result

vars == <<g_fairplay, engines, loggers, nInits, buffers, nBuffers, fault, failRet, last>>

(* ------------------------------ results -------------------------------- *)
\* a Java null reference returned for jbyteArray
NullRet == [kind |-> "null", val |-> 0, data |-> <<>>]
\* a fresh jbyteArray of n bytes whose contents the model does not track
BytesRet(n) == [kind |-> "bytes", val |-> n, data |-> <<>>]
\* a jbyteArray holding the bytes d
DataRet(d) == [kind |-> "bytes", val |-> Len(d), data |-> d]
IntRet(n) == [kind |-> "int", val |-> n, data |-> <<>>]
VoidRet == [kind |-> "void", val |-> 0, data |-> <<>>]
\* a jlong handle (0 is the null handle)
HandleRet(h) == [kind |-> "handle", val |-> h, data |-> <<>>]

\* the record of one binding call
Call(op, h, len, lib, err, uaf, ret) ==
    [op |-> op, h |-> h, len |-> len, lib |-> lib, err |-> err, uaf |-> uaf, ret |-> ret,
     null |-> FALSE]

\* the record of a call that handed a null array reference to a JNI array
\* function and got as far as returning ret
NullArrayCall(op, h, ret) ==
    [op |-> op, h |-> h, len |-> 0, lib |-> FALSE, err |-> "NullArray", uaf |-> FALSE,
     ret |-> ret, null |-> TRUE]

FailClass(err) ==
    CASE err = "InvalidInput" -> "bad_input"
      [] err \in {"NotInitialized", "SequenceError", "NotReady"} -> "wrong_order"
      [] err = "CryptoFailure" -> "crypto"
      [] OTHER -> "none"

FailClasses == {"bad_input", "wrong_order", "crypto"}

\* failRet after a call that ended with error kind err and returned ret
NoteFail(err, ret) ==
    IF FailClass(err) \in FailClasses
    THEN [failRet EXCEPT ![FailClass(err)] = @ \cup {ret}]
    ELSE failRet

(* ------------------- the FairPlay library (HandshakeEngine) ------------ *)
NoEngine ==
    [alloc |-> "none", session_state |-> "Uninitialized", setup_done |-> FALSE, frees |-> 0]

\* fairplay_init: a fresh engine, ready for Setup
fairplay_init ==
    [alloc |-> "live", session_state |-> "AwaitingHandshake", setup_done |-> FALSE, frees |-> 0]

\* fairplay_setup on engine e; ok: the primitives of this round succeed
fairplay_setup(e, ok) ==
    IF e.session_state # "AwaitingHandshake"
    THEN [ret |-> -1, err |-> "SequenceError", e |-> e]
    ELSE IF ok
         THEN [ret |-> 0, err |-> "none", e |-> [e EXCEPT !.setup_done = TRUE]]
         ELSE [ret |-> -1, err |-> "CryptoFailure",
               e |-> [e EXCEPT !.session_state = "Failed"]]

\* fairplay_handshake on engine e; ok: the sender's proof verifies
fairplay_handshake(e, ok) ==
    IF e.session_state # "AwaitingHandshake" \/ ~e.setup_done
    THEN [ret |-> -1, err |-> "SequenceError", e |-> e]
    ELSE IF ok
         THEN [ret |-> 0, err |-> "none", e |-> [e EXCEPT !.session_state = "Ready"]]
         ELSE [ret |-> -1, err |-> "CryptoFailure",
               e |-> [e EXCEPT !.session_state = "Failed"]]

\* fairplay_decrypt on engine e; ok: the wrapped key unwraps
fairplay_decrypt(e, ok) ==
    IF e.session_state # "Ready"
    THEN [ret |-> -1, err |-> "NotReady", e |-> e]
    ELSE IF ok
         THEN [ret |-> 0, err |-> "none", e |-> e]
         ELSE [ret |-> -1, err |-> "CryptoFailure", e |-> e]

\* fairplay_destroy: key material zeroed, memory released
fairplay_destroy(e) ==
    [alloc |-> "freed", session_state |-> "Uninitialized", setup_done |-> FALSE,
     frees |-> e.frees + 1]

(* ----------------------- fairplay_jni.c: the bindings ------------------ *)
\* The byte arrays of the requests are modelled by their length and by
\* whether the library accepts their contents; a failing NewByteArray for
\* the response is not modelled.
EngineIds == 1..MaxInits

\* the guard "g_fairplay == NULL" that opens nativeSetup/Handshake/Decrypt
NotInitialized(g) == g = NULL

\* nativeInit without its guard
AlreadyInitialized_never(g) == FALSE

\* the guard "g_fairplay != NULL" that opens nativeInit
AlreadyInitialized(g) == g # NULL

\* nativeDestroy leaving the released pointer in g_fairplay
DestroyedPointer_kept(g) == g

\* the value nativeDestroy leaves in g_fairplay after releasing the engine g
DestroyedPointer(g) == NULL

\* a length check that only rejects requests that are too short
SetupLenBad_shortOnly(len) == len < SETUP_REQ_LEN

\* a wrapped key length check that refuses only keys that are too short
DecryptLenBad_shortOnly(len) == len < EKEY_LEN

\* the length checks of the three operations
SetupLenBad(len) == len # SETUP_REQ_LEN
HandshakeLenBad(len) == len # HANDSHAKE_REQ_LEN
DecryptLenBad(len) == len # EKEY_LEN

\* the result with the library's return value ignored
ResultArray_ignoresRet(ret, n) == BytesRet(n)

\* the result with only positive return values taken as failures
ResultArray_positiveOnly(ret, n) == IF ret > 0 THEN NullRet ELSE BytesRet(n)

\* the result with the test on the library's return value inverted
ResultArray_inverted(ret, n) == IF ret = 0 THEN NullRet ELSE BytesRet(n)

\* what an operation returns once the library returned ret: NULL unless
\* ret is 0, else a new byte array of n bytes
ResultArray(ret, n) == IF ret # 0 THEN NullRet ELSE BytesRet(n)

\* the common shape of nativeSetup, nativeHandshake and nativeDecrypt:
\* r is the library's answer, used only when the guards let the call through;
\* nul: the array reference is null.  GetArrayLength on a null reference
\* is undefined: the runtime aborts, or the call returns a length that the
\* length check refuses.
EngineCall(op, nul, len, lenBad, r, n) ==
    IF NotInitialized(g_fairplay)
    THEN /\ last' = [Call(op, 0, len, FALSE, "NotInitialized", FALSE, NullRet)
                       EXCEPT !.null = nul]
         /\ failRet' = NoteFail("NotInitialized", NullRet)
         /\ UNCHANGED <<engines, fault>>
    ELSE IF nul
    THEN /\ fault' \in BOOLEAN
         /\ last' = NullArrayCall(op, 0, NullRet)
         /\ UNCHANGED <<engines, failRet>>
    ELSE IF lenBad
    THEN /\ last' = Call(op, 0, len, FALSE, "InvalidInput", FALSE, NullRet)
         /\ failRet' = NoteFail("InvalidInput", NullRet)
         /\ UNCHANGED <<engines, fault>>
    ELSE /\ engines' = [engines EXCEPT ![g_fairplay] = r.e]
         /\ last' = Call(op, 0, len, TRUE, r.err, FALSE, ResultArray(r.ret, n))
         /\ failRet' = NoteFail(r.err, ResultArray(r.ret, n))
         /\ UNCHANGED fault

\* the engine the library call of an operation works on
Engine == IF g_fairplay \in EngineIds THEN engines[g_fairplay] ELSE NoEngine

\* nativeInit storing the address of the attempt whether or not
\* fairplay_init gave an engine
CreatedPointer_onFailureToo(fp_ok, id) == id

\* the value nativeInit stores in g_fairplay: what fairplay_init returned,
\* the new engine id or NULL
CreatedPointer(fp_ok, id) == IF fp_ok THEN id ELSE NULL

\* nativeInit returning on failure without logger_destroy
LoggerAfterInit_leaks(lg_ok, fp_ok) == IF lg_ok THEN "live" ELSE "none"

\* the logger of one nativeInit attempt when nativeInit returns: none if
\* calloc gave none, kept by the engine on success, released by
\* logger_destroy on failure
LoggerAfterInit(lg_ok, fp_ok) ==
    IF ~lg_ok THEN "none" ELSE IF fp_ok THEN "live" ELSE "freed"

\* FairPlay.nativeInit; lg_ok: calloc of the logger succeeds, fp_ok: fairplay_init succeeds
FairPlay_nativeInit(lg_ok, fp_ok) ==
    /\ ~fault
    /\ IF AlreadyInitialized(g_fairplay)
       THEN /\ last' = Call("Init", 0, 0, FALSE, "none", FALSE, IntRet(0))
            /\ UNCHANGED <<g_fairplay, engines, loggers, nInits>>
       ELSE /\ nInits < MaxInits
            /\ nInits' = nInits + 1
            /\ g_fairplay' = CreatedPointer(fp_ok, nInits + 1)
            /\ loggers' = [loggers EXCEPT ![nInits + 1] = LoggerAfterInit(lg_ok, fp_ok)]
            /\ IF fp_ok
               THEN /\ engines' = [engines EXCEPT ![nInits + 1] = fairplay_init]
                    /\ last' = Call("Init", 0, 0, TRUE, "none", FALSE, IntRet(0))
               ELSE /\ UNCHANGED engines
                    /\ last' = Call("Init", 0, 0, TRUE, "AllocationFailure", FALSE, IntRet(-1))
    /\ UNCHANGED <<buffers, nBuffers, fault, failRet>>

\* FairPlay.nativeSetup(request); nul: the request is a null reference,
\* len: the request's length, ok: the library's round succeeds
FairPlay_nativeSetup(nul, len, ok) ==
    /\ ~fault
    /\ EngineCall("Setup", nul, len, SetupLenBad(len), fairplay_setup(Engine, ok),
                  SETUP_RES_LEN)
    /\ UNCHANGED <<g_fairplay, loggers, nInits, buffers, nBuffers>>

\* FairPlay.nativeHandshake(request)
FairPlay_nativeHandshake(nul, len, ok) ==
    /\ ~fault
    /\ EngineCall("Handshake", nul, len, HandshakeLenBad(len), fairplay_handshake(Engine, ok),
                  HANDSHAKE_RES_LEN)
    /\ UNCHANGED <<g_fairplay, loggers, nInits, buffers, nBuffers>>

\* nativeDecrypt calling the handshake round of the library instead of the
\* key unwrapping
FairPlay_nativeDecrypt_callsHandshake(nul, len, ok) ==
    /\ ~fault
    /\ EngineCall("DecryptKey", nul, len, DecryptLenBad(len), fairplay_handshake(Engine, ok),
                  AESKEY_OUT_LEN)
    /\ UNCHANGED <<g_fairplay, loggers, nInits, buffers, nBuffers>>

\* FairPlay.nativeDecrypt(encrypted_key)
FairPlay_nativeDecrypt(nul, len, ok) ==
    /\ ~fault
    /\ EngineCall("DecryptKey", nul, len, DecryptLenBad(len), fairplay_decrypt(Engine, ok),
                  AESKEY_OUT_LEN)
    /\ UNCHANGED <<g_fairplay, loggers, nInits, buffers, nBuffers>>

\* FairPlay.nativeDestroy
FairPlay_nativeDestroy ==
    /\ ~fault
    /\ IF g_fairplay # NULL
       THEN /\ engines' = [engines EXCEPT ![g_fairplay] = fairplay_destroy(@)]
            /\ g_fairplay' = DestroyedPointer(g_fairplay)
            /\ last' = Call("Destroy", 0, 0, TRUE, "none", FALSE, VoidRet)
       ELSE /\ last' = Call("Destroy", 0, 0, FALSE, "none", FALSE, VoidRet)
            /\ UNCHANGED <<g_fairplay, engines>>
    /\ UNCHANGED <<loggers, nInits, buffers, nBuffers, fault, failRet>>

(* --------------- the mirror buffer library (StreamDecryptor) ----------- *)
BufferIds == 1..MaxBuffers

NoBuffer == [alloc |-> "none", key |-> 0, inited |-> FALSE, sid |-> 0, counter |-> 0, frees |-> 0]

\* bit i of the byte x
Bit(x, i) == (x \div (2 ^ i)) % 2

\* bitwise exclusive or of two bytes
Xor(a, b) ==
    ((Bit(a, 0) + Bit(b, 0)) % 2)
    + 2 * ((Bit(a, 1) + Bit(b, 1)) % 2)
    + 4 * ((Bit(a, 2) + Bit(b, 2)) % 2)
    + 8 * ((Bit(a, 3) + Bit(b, 3)) % 2)
    + 16 * ((Bit(a, 4) + Bit(b, 4)) % 2)
    + 32 * ((Bit(a, 5) + Bit(b, 5)) % 2)
    + 64 * ((Bit(a, 6) + Bit(b, 6)) % 2)
    + 128 * ((Bit(a, 7) + Bit(b, 7)) % 2)

\* the stream key and the initial counter block derived from the content
\* key and the stream connection identifier
StreamKey(key, sid) == (key * 37 + sid * 101 + 5) % 256
StreamIV(key, sid) == (key * 59 + sid * 13 + 3) % 256

\* byte j of the cipher block the stream key gives for counter block ctr
CipherBlock(k, ctr, j) == (k * 131 + ctr * 53 + j * 7 + ((k * ctr) % 17) + 11) % 256

\* the keystream byte at byte offset off of the stream (key, sid)
Keystream(key, sid, off) ==
    CipherBlock(StreamKey(key, sid), StreamIV(key, sid) + (off \div RAOP_AESIV_LEN),
                off % RAOP_AESIV_LEN)

\* mirror_buffer_init: the key stored, no stream context yet
mirror_buffer_init(key) ==
    [alloc |-> "live", key |-> key, inited |-> FALSE, sid |-> 0, counter |-> 0, frees |-> 0]

\* mirror_buffer_init_aes: counter-mode state for stream sid, byte counter reset
mirror_buffer_init_aes(b, sid) ==
    [b EXCEPT !.inited = TRUE, !.sid = sid, !.counter = 0]

\* mirror_buffer_decrypt of input into an output buffer holding output:
\* counter mode at the current byte offset, the offset then advanced
mirror_buffer_decrypt(b, input, output) ==
    IF ~b.inited
    THEN [err |-> "NotInitialized", out |-> output, b |-> b]
    ELSE [err |-> "none",
          out |-> [i \in 1..Len(input) |->
                     Xor(input[i], Keystream(b.key, b.sid, b.counter + i - 1))],
          b |-> [b EXCEPT !.counter = @ + Len(input)]]

\* mirror_buffer_destroy: key and stream state zeroed, memory released
mirror_buffer_destroy(b) ==
    [alloc |-> "freed", key |-> 0, inited |-> FALSE, sid |-> 0, counter |-> 0,
     frees |-> b.frees + 1]

(* -------------------- mirror_buffer_jni.c: the bindings ---------------- *)
\* the guard "buffer == NULL" on the handle a caller passes
InvalidHandle(h) == h = NULL

\* a key length check that refuses only keys that are too short
KeyLenBad_shortOnly(len) == len < MIRROR_KEY_LEN

\* the key length check of nativeInit
KeyLenBad(len) == len # MIRROR_KEY_LEN

\* a new Java byte array of n bytes (zero filled)
NewByteArray(n) == [i \in 1..n |-> 0]

\* the input array generated from a byte pattern
Input(seed, n) == [i \in 1..n |-> (seed * 85 + i * 29 + 1) % 256]

\* the lengths of the inputs of nativeDecrypt: empty, short, one cipher block
InputLens == {0, MaxLen, RAOP_AESIV_LEN}

Inputs == {Input(seed, n) : seed \in Seeds, n \in InputLens}

\* nativeDecrypt handing the library one byte less than the input holds
DecryptInto_offByOne(b, input) ==
    LET n == Len(input)
        r == mirror_buffer_decrypt(b, SubSeq(input, 1, n - 1), NewByteArray(n - 1))
    IN  [ret |-> DataRet(IF n = 0 THEN <<>> ELSE Append(r.out, 0)), err |-> r.err, b |-> r.b]

\* the body of nativeDecrypt on the buffer memory b once the handle and the
\* output array are there: the library decrypts input into the output array
\* and the output array is returned
DecryptInto(b, input) ==
    LET r == mirror_buffer_decrypt(b, input, NewByteArray(Len(input)))
    IN  [ret |-> DataRet(r.out), err |-> r.err, b |-> r.b]

\* the stream id handed to the library: the jlong cast to uint64_t
StreamId(stream_connection_id) == stream_connection_id

\* nativeInitAes binding a stream only on a decryptor not yet bound
InitAesOn_onlyFirst(b, stream_connection_id) ==
    IF b.inited THEN b ELSE mirror_buffer_init_aes(b, StreamId(stream_connection_id))

\* the body of nativeInitAes on the buffer memory b: the library binds the
\* buffer to the stream id
InitAesOn(b, stream_connection_id) ==
    mirror_buffer_init_aes(b, StreamId(stream_connection_id))

\* MirrorBufferDecryptor.nativeInit(aeskey); nul: aeskey is a null
\* reference, klen: the array's length, key: its contents; mirror_buffer_init
\* succeeds or returns NULL.  GetByteArrayElements on a null reference is
\* undefined: the runtime aborts, or the length check refuses what it got.
MirrorBufferDecryptor_nativeInit(nul, klen, key) ==
    /\ ~fault
    /\ IF nul
       THEN /\ fault' \in BOOLEAN
            /\ last' = NullArrayCall("New", 0, HandleRet(NULL))
            /\ UNCHANGED <<buffers, nBuffers>>
       ELSE IF KeyLenBad(klen)
       THEN /\ last' = Call("New", 0, klen, FALSE, "InvalidKeyLength", FALSE, HandleRet(NULL))
            /\ UNCHANGED <<buffers, nBuffers, fault>>
       ELSE \/ /\ last' = Call("New", 0, klen, TRUE, "AllocationFailure", FALSE, HandleRet(NULL))
               /\ UNCHANGED <<buffers, nBuffers, fault>>
            \/ /\ nBuffers < MaxBuffers
               /\ nBuffers' = nBuffers + 1
               /\ buffers' = [buffers EXCEPT ![nBuffers + 1] = mirror_buffer_init(key)]
               /\ last' = Call("New", nBuffers + 1, klen, TRUE, "none", FALSE,
                               HandleRet(nBuffers + 1))
               /\ UNCHANGED fault
    /\ UNCHANGED <<g_fairplay, engines, loggers, nInits, failRet>>

\* MirrorBufferDecryptor.nativeInitAes(handle, streamConnectionID).
\* A handle to released memory is a dangling pointer: the call faults or
\* completes on the released memory.
MirrorBufferDecryptor_nativeInitAes(h, sid) ==
    /\ ~fault
    /\ IF InvalidHandle(h)
       THEN /\ last' = Call("InitStream", h, 0, FALSE, "InvalidHandle", FALSE, VoidRet)
            /\ UNCHANGED <<buffers, fault>>
       ELSE IF buffers[h].alloc = "freed"
       THEN /\ fault' \in BOOLEAN
            /\ last' = Call("InitStream", h, 0, TRUE, "none", TRUE, VoidRet)
            /\ UNCHANGED buffers
       ELSE /\ buffers' = [buffers EXCEPT ![h] = InitAesOn(@, sid)]
            /\ last' = Call("InitStream", h, 0, TRUE, "none", FALSE, VoidRet)
            /\ UNCHANGED fault
    /\ UNCHANGED <<g_fairplay, engines, loggers, nInits, nBuffers, failRet>>

\* MirrorBufferDecryptor.nativeDecrypt(handle, input); nul: input is a
\* null reference; NewByteArray gives the output array or fails.
\* GetByteArrayElements on a null reference is undefined: the runtime
\* aborts, or the call gets no further than a null result.
MirrorBufferDecryptor_nativeDecrypt(h, nul, input) ==
    /\ ~fault
    /\ IF InvalidHandle(h)
       THEN /\ last' = [Call("Decrypt", h, Len(input), FALSE, "InvalidHandle", FALSE, NullRet)
                          EXCEPT !.null = nul]
            /\ UNCHANGED <<buffers, fault>>
       ELSE IF nul
       THEN /\ fault' \in BOOLEAN
            /\ last' = NullArrayCall("Decrypt", h, NullRet)
            /\ UNCHANGED buffers
       ELSE \/ /\ last' = Call("Decrypt", h, Len(input), FALSE, "AllocationFailure", FALSE,
                               NullRet)
               /\ UNCHANGED <<buffers, fault>>
            \/ IF buffers[h].alloc = "freed"
               THEN /\ fault' \in BOOLEAN
                    /\ last' = Call("Decrypt", h, Len(input), TRUE, "none", TRUE,
                                    BytesRet(Len(input)))
                    /\ UNCHANGED buffers
               ELSE LET r == DecryptInto(buffers[h], input)
                    IN  /\ r.b.counter <= MaxOffset
                        /\ buffers' = [buffers EXCEPT ![h] = r.b]
                        /\ last' = Call("Decrypt", h, Len(input), TRUE, r.err, FALSE, r.ret)
                        /\ UNCHANGED fault
    /\ UNCHANGED <<g_fairplay, engines, loggers, nInits, nBuffers, failRet>>

\* MirrorBufferDecryptor.nativeDestroy(handle).  On a handle to released
\* memory the library releases it a second time: a fault, or a double free
\* that goes unnoticed.
MirrorBufferDecryptor_nativeDestroy(h) ==
    /\ ~fault
    /\ IF InvalidHandle(h)
       THEN /\ last' = Call("DestroyStream", h, 0, FALSE, "none", FALSE, VoidRet)
            /\ UNCHANGED <<buffers, fault>>
       ELSE IF buffers[h].alloc = "freed"
       THEN /\ fault' \in BOOLEAN
            /\ buffers' = [buffers EXCEPT ![h].frees = IF @ < 2 THEN @ + 1 ELSE @]
            /\ last' = Call("DestroyStream", h, 0, TRUE, "none", TRUE, VoidRet)
       ELSE /\ buffers' = [buffers EXCEPT ![h] = mirror_buffer_destroy(@)]
            /\ last' = Call("DestroyStream", h, 0, TRUE, "none", FALSE, VoidRet)
            /\ UNCHANGED fault
    /\ UNCHANGED <<g_fairplay, engines, loggers, nInits, nBuffers, failRet>>

(* ---------------------------- specifications --------------------------- *)
Init ==
    /\ g_fairplay = NULL
    /\ engines = [i \in EngineIds |-> NoEngine]
    /\ loggers = [i \in EngineIds |-> "none"]
    /\ nInits = 0
    /\ buffers = [i \in BufferIds |-> NoBuffer]
    /\ nBuffers = 0
    /\ fault = FALSE
    /\ failRet = [c \in FailClasses |-> {}]
    /\ last = Call("none", 0, 0, FALSE, "none", FALSE, VoidRet)

\* the lengths of the arrays a caller passes: a null reference has none
ArrayLens(nul, lens) == IF nul THEN {0} ELSE lens

\* the handles a caller holds: NULL and those nativeInit returned
Handles == 0..nBuffers

NextFP ==
    \/ \E lg_ok \in BOOLEAN, fp_ok \in BOOLEAN : FairPlay_nativeInit(lg_ok, fp_ok)
    \/ \E nul \in BOOLEAN : \E len \in ArrayLens(nul, ReqLens), ok \in BOOLEAN :
          FairPlay_nativeSetup(nul, len, ok)
    \/ \E nul \in BOOLEAN : \E len \in ArrayLens(nul, ReqLens), ok \in BOOLEAN :
          FairPlay_nativeHandshake(nul, len, ok)
    \/ \E nul \in BOOLEAN : \E len \in ArrayLens(nul, ReqLens), ok \in BOOLEAN :
          FairPlay_nativeDecrypt(nul, len, ok)
    \/ FairPlay_nativeDestroy

NextMB ==
    \/ \E nul \in BOOLEAN : \E klen \in ArrayLens(nul, KeyLens), key \in Keys :
          MirrorBufferDecryptor_nativeInit(nul, klen, key)
    \/ \E h \in Handles, sid \in SIDs : MirrorBufferDecryptor_nativeInitAes(h, sid)
    \/ \E h \in Handles, nul \in BOOLEAN : \E input \in (IF nul THEN {<<>>} ELSE Inputs) :
          MirrorBufferDecryptor_nativeDecrypt(h, nul, input)
    \/ \E h \in Handles : MirrorBufferDecryptor_nativeDestroy(h)

\* one stream decryptor: a caller that creates a single decryptor
NextMB1 ==
    \/ \E nul \in BOOLEAN : \E klen \in ArrayLens(nul, KeyLens), key \in Keys :
          nBuffers = 0 /\ MirrorBufferDecryptor_nativeInit(nul, klen, key)
    \/ \E h \in Handles, sid \in SIDs : MirrorBufferDecryptor_nativeInitAes(h, sid)
    \/ \E h \in Handles, nul \in BOOLEAN : \E input \in (IF nul THEN {<<>>} ELSE Inputs) :
          MirrorBufferDecryptor_nativeDecrypt(h, nul, input)
    \/ \E h \in Handles : MirrorBufferDecryptor_nativeDestroy(h)

Next == NextFP \/ NextMB

\* no stream decryptor call has been made yet
StreamIdle == nBuffers = 0 /\ last.op \notin {"New", "InitStream", "Decrypt", "DestroyStream"}

\* a mirroring session in the order the protocol runs it: the calls on the
\* handshake engine, which yield the content key, then the calls on one
\* stream decryptor
NextSession ==
    \/ StreamIdle /\ NextFP
    \/ NextMB1

\* the handshake engine driven alone
SpecFP == Init /\ [][NextFP]_vars
\* the stream decryptors driven alone
SpecMB == Init /\ [][NextMB]_vars
\* a single stream decryptor driven alone
SpecMB1 == Init /\ [][NextMB1]_vars
\* both components driven by one caller
\* the engine, then one stream decryptor, in one process
SpecSession == Init /\ [][NextSession]_vars
Spec == Init /\ [][Next]_vars

(* ------------------------- the handshake engine ------------------------ *)
EngineOps == {"Setup", "Handshake", "DecryptKey"}

\* the last call was operation op on a live engine
CalledOnEngine(op) == last.op = op /\ g_fairplay # NULL

\* the request length operation op requires
RequiredLen(op) ==
    CASE op = "Setup" -> SETUP_REQ_LEN
      [] op = "Handshake" -> HANDSHAKE_REQ_LEN
      [] op = "DecryptKey" -> EKEY_LEN
      [] OTHER -> 0

\* C1: on an initialized engine, a Handshake made before any successful
\* Setup fails, whatever the request: it returns the null result, never a
\* 32-byte response, and a 164-byte request is refused as out of sequence.
C1_HandshakeBeforeSetupFails ==
    (CalledOnEngine("Handshake") /\ ~engines[g_fairplay].setup_done)
        => /\ last.ret = NullRet
           /\ last.len = HANDSHAKE_REQ_LEN => last.err = "SequenceError"

C1_Witness ==
    /\ CalledOnEngine("Handshake")
    /\ ~engines[g_fairplay].setup_done
    /\ last.len = HANDSHAKE_REQ_LEN
    /\ last.lib
    /\ last.ret = NullRet

\* C2: a DecryptKey made while the engine is not Ready (only initialized,
\* or only Setup done) fails, whatever the wrapped key: it returns the null
\* result, never a 16-byte key, and a 72-byte key is refused as NotReady.
C2_DecryptKeyBeforeHandshakeFails ==
    (CalledOnEngine("DecryptKey") /\ engines[g_fairplay].session_state # "Ready")
        => /\ last.ret = NullRet
           /\ last.len = EKEY_LEN => last.err = "NotReady"

C2_Witness ==
    /\ CalledOnEngine("DecryptKey")
    /\ engines[g_fairplay].session_state = "AwaitingHandshake"
    /\ engines[g_fairplay].setup_done
    /\ last.len = EKEY_LEN
    /\ last.lib
    /\ last.ret = NullRet

\* the engine behind g_fairplay is in the Failed state
EngineFailed == g_fairplay # NULL /\ engines[g_fairplay].session_state = "Failed"

\* C3: a cryptographic or verification failure in Setup or Handshake moves
\* the engine to Failed; a Failed engine stays Failed for as long as it is
\* the engine behind g_fairplay, and every Setup, Handshake and DecryptKey
\* on it returns the null result, DecryptKey with a 72-byte key as NotReady.
C3_CryptoFailureIsTerminal ==
    /\ [](CalledOnEngine("Setup") /\ last.err = "CryptoFailure" => EngineFailed)
    /\ [](CalledOnEngine("Handshake") /\ last.err = "CryptoFailure" => EngineFailed)
    /\ [][(EngineFailed /\ g_fairplay' = g_fairplay)
            => /\ EngineFailed'
               /\ last'.op \in EngineOps => last'.ret = NullRet
               /\ (last'.op = "DecryptKey" /\ last'.len = EKEY_LEN)
                     => last'.err = "NotReady"]_vars

C3_Witness ==
    /\ EngineFailed
    /\ engines[g_fairplay].setup_done
    /\ last.op = "DecryptKey"
    /\ last.len = EKEY_LEN
    /\ last.lib
    /\ last.err = "NotReady"

\* C4: a Setup, Handshake or DecryptKey whose request (an array, not a null
\* reference) has the wrong length
\* returns the null result without reaching the library, reported as
\* InvalidInput on an initialized engine, and changes nothing of the
\* engine: the pointer, the engines, the loggers.
C4_WrongLengthLeavesState ==
    /\ [](\A op \in EngineOps :
            (last.op = op /\ ~last.null /\ last.len # RequiredLen(op))
                => /\ last.ret = NullRet
                   /\ ~last.lib
                   /\ g_fairplay # NULL => last.err = "InvalidInput")
    /\ [][(last'.op \in EngineOps /\ ~last'.null /\ last'.len # RequiredLen(last'.op))
            => UNCHANGED <<g_fairplay, engines, loggers, nInits>>]_vars

C4_Witness ==
    /\ CalledOnEngine("Setup")
    /\ last.len = 15
    /\ last.err = "InvalidInput"
    /\ engines[g_fairplay].session_state = "AwaitingHandshake"
    /\ ~engines[g_fairplay].setup_done

\* C5: the value a failing Setup, Handshake or DecryptKey returns tells the
\* kind of failure: no value is returned for failures of two different
\* kinds (bad input, wrong call order, cryptographic failure).
C5_FailureKindsDistinct ==
    \A c1 \in FailClasses, c2 \in FailClasses :
        c1 # c2 => failRet[c1] \cap failRet[c2] = {}

\* C9: Destroy of the engine is idempotent and final: no engine is ever
\* released twice, an engine is released exactly when it is marked freed,
\* after Destroy the pointer is NULL, every Setup, Handshake and DecryptKey
\* made while it is NULL returns the null result without reaching the
\* library, and a Destroy made while it is NULL releases nothing.
C9_DestroyIdempotentAndFinal ==
    /\ [](\A i \in EngineIds :
            /\ engines[i].frees <= 1
            /\ engines[i].alloc = "freed" <=> engines[i].frees = 1)
    /\ [](last.op = "Destroy" => g_fairplay = NULL)
    /\ []((g_fairplay = NULL /\ last.op \in EngineOps)
            => last.ret = NullRet /\ ~last.lib)
    /\ [][(g_fairplay = NULL /\ last'.op = "Destroy")
            => ~last'.lib /\ UNCHANGED <<g_fairplay, engines, loggers, nInits>>]_vars

C9_Witness ==
    /\ g_fairplay = NULL
    /\ last.op = "Destroy"
    /\ ~last.lib
    /\ \E i \in EngineIds : engines[i].frees = 1

\* C10: Init on an initialized engine returns 0, reaches neither logger_init
\* nor fairplay_init, and leaves the pointer, the engine with its session
\* progress, the loggers and the number of creations as they were.
C10_InitIdempotent ==
    [][(g_fairplay # NULL /\ last'.op = "Init")
         => /\ last'.ret = IntRet(0)
            /\ ~last'.lib
            /\ UNCHANGED <<g_fairplay, engines, loggers, nInits>>]_vars

C10_Witness ==
    /\ last.op = "Init"
    /\ ~last.lib
    /\ last.ret = IntRet(0)
    /\ g_fairplay # NULL
    /\ engines[g_fairplay].session_state = "Ready"

\* the engine behind g_fairplay is in the Ready state
EngineReady == g_fairplay # NULL /\ engines[g_fairplay].session_state = "Ready"

\* C11: DecryptKey never changes the engine: whether it succeeds, fails on
\* a wrong-length key or fails in the unwrapping, the pointer and the engine
\* with its session state are as before, so a Ready engine stays Ready;
\* and on a Ready engine a 72-byte key is never refused as out of order:
\* it yields a 16-byte key unless the unwrapping itself fails.
C11_DecryptKeyKeepsState ==
    /\ [][last'.op = "DecryptKey" => UNCHANGED <<g_fairplay, engines, loggers, nInits>>]_vars
    /\ []((EngineReady /\ last.op = "DecryptKey" /\ last.len = EKEY_LEN)
            => /\ last.lib
               /\ last.err \in {"none", "CryptoFailure"}
               /\ last.err = "none" => last.ret = BytesRet(AESKEY_OUT_LEN))

\* a DecryptKey that failed in the unwrapping and left the engine Ready
C11_Witness ==
    /\ EngineReady
    /\ last.op = "DecryptKey"
    /\ last.len = EKEY_LEN
    /\ last.err = "CryptoFailure"
    /\ last.ret = NullRet

(* ------------------------- the stream decryptor ------------------------ *)
\* the last call was operation op on the live buffer behind its handle
CalledOnBuffer(op) ==
    /\ last.op = op
    /\ last.h # NULL
    /\ buffers[last.h].alloc = "live"
    /\ last.lib

\* C6: a Decrypt on a decryptor on which InitStream was never called fails
\* as NotInitialized: the cipher is not run and the call returns no output
\* bytes.
C6_DecryptBeforeInitStreamFails ==
    (CalledOnBuffer("Decrypt") /\ ~buffers[last.h].inited)
        => last.err = "NotInitialized" /\ last.ret.val = 0

\* C7: counter-mode chunk independence.  From every state of a decryptor
\* bound to a stream, and for every input split as A then B at any
\* position (empty A, empty B, splits off the 16-byte block size),
\* Decrypt(A) then Decrypt(B) return outputs whose concatenation is the
\* output of one Decrypt(A ++ B), and leave the decryptor in the same state.
C7_ChunkIndependence ==
    \A h \in BufferIds :
        (buffers[h].alloc = "live" /\ buffers[h].inited) =>
            \A X \in Inputs : \A k \in 0..Len(X) :
                \A A \in {SubSeq(X, 1, k)}, B \in {SubSeq(X, k + 1, Len(X))} :
                    \A first \in {DecryptInto(buffers[h], A)} :
                        \A second \in {DecryptInto(first.b, B)},
                           whole \in {DecryptInto(buffers[h], X)} :
                            /\ first.ret.data \o second.ret.data = whole.ret.data
                            /\ second.b = whole.b

\* a decryptor that has decrypted across a block boundary, part of a
\* block at a time
C7_Witness ==
    /\ CalledOnBuffer("Decrypt")
    /\ buffers[last.h].inited
    /\ buffers[last.h].counter > RAOP_AESIV_LEN
    /\ buffers[last.h].counter % RAOP_AESIV_LEN # 0
    /\ last.len = MaxLen
    /\ last.ret.val = MaxLen

\* C8: Destroy of a decryptor is idempotent: no buffer is released twice,
\* and no call made after Destroy works on the released buffer (or faults
\* on it).
C8_StreamDestroyIdempotent ==
    /\ \A h \in BufferIds : buffers[h].frees <= 1
    /\ ~last.uaf

\* C12: InitStream rebinding resets the counter.  After InitStream(S) the
\* byte counter is 0, and from every state of a live decryptor, whatever
\* stream it was bound to and however many bytes it decrypted, InitStream(S)
\* leaves the decryptor as InitStream(S) leaves a decryptor just created
\* with the same key, so the following Decrypt returns the same bytes.
C12_RebindResetsCounter ==
    /\ CalledOnBuffer("InitStream")
          => buffers[last.h].inited /\ buffers[last.h].counter = 0
    /\ \A h \in BufferIds :
          buffers[h].alloc = "live" =>
              \A S \in SIDs :
                  \A rebound \in {InitAesOn(buffers[h], S)},
                     fresh \in {InitAesOn(mirror_buffer_init(buffers[h].key), S)} :
                      /\ rebound = fresh
                      /\ \A C \in Inputs :
                            DecryptInto(rebound, C).ret = DecryptInto(fresh, C).ret

\* a decryptor rebound after it had decrypted part of a block of a stream
C12_Witness ==
    /\ CalledOnBuffer("Decrypt")
    /\ buffers[last.h].inited
    /\ buffers[last.h].sid = 2
    /\ buffers[last.h].counter = MaxLen
    /\ last.ret.val = MaxLen
    /\ \E C \in Inputs :
          /\ Len(C) = MaxLen
          /\ DecryptInto(InitAesOn(buffers[last.h], 1), C).ret
                # DecryptInto(buffers[last.h], C).ret

\* the stream decryptor operations that take a handle
HandleOps == {"InitStream", "Decrypt", "DestroyStream"}

\* C13: New with a key array whose length is not exactly 16 fails with
\* InvalidKeyLength, returns the null handle, creates no decryptor and does
\* not reach the library; InitStream, Decrypt and Destroy on the null handle
\* do not reach the library and change nothing, Decrypt returning no array.
C13_BadKeyLengthCreatesNothing ==
    /\ [][(last'.op = "New" /\ ~last'.null /\ last'.len # MIRROR_KEY_LEN)
            => /\ last'.ret = HandleRet(NULL)
               /\ last'.err = "InvalidKeyLength"
               /\ ~last'.lib
               /\ UNCHANGED <<buffers, nBuffers, fault>>]_vars
    /\ [][(last'.op \in HandleOps /\ last'.h = NULL)
            => /\ ~last'.lib
               /\ last'.err \in {"InvalidHandle", "none"}
               /\ last'.op = "Decrypt" => last'.ret = NullRet /\ last'.err = "InvalidHandle"
               /\ last'.op # "Decrypt" => last'.ret = VoidRet
               /\ UNCHANGED <<buffers, nBuffers, fault>>]_vars

\* a New with a 17-byte key was refused and no decryptor exists
C13_Witness ==
    /\ last.op = "New" /\ ~last.null /\ last.len = MIRROR_KEY_LEN + 1
    /\ last.err = "InvalidKeyLength" /\ last.ret = HandleRet(NULL)
    /\ nBuffers = 0

\* the binding operations that take a byte array
ArrayOps == EngineOps \cup {"New", "Decrypt"}

\* the results that signal an error to the caller: no array, the null handle
ErrorSignals == {NullRet, HandleRet(NULL)}

\* C14: a binding operation that takes a byte array and is given a null
\* reference or an array of length zero returns an error signal, reports
\* an error, and does not fault.
C14_NullOrEmptyIsError ==
    (last.op \in ArrayOps /\ (last.null \/ last.len = 0))
        => /\ ~fault
           /\ last.ret \in ErrorSignals
           /\ last.err # "none"

\* the length of the array operation op returns on success
ResultLen(op) ==
    CASE op = "Setup" -> SETUP_RES_LEN
      [] op = "Handshake" -> HANDSHAKE_RES_LEN
      [] op = "DecryptKey" -> AESKEY_OUT_LEN
      [] OTHER -> 0

\* C15: buffer sizes are invariants.  Every array Setup, Handshake and
\* DecryptKey return has exactly 142, 32 and 16 bytes, and a call that
\* succeeds returns one; every array the stream Decrypt returns has the
\* length of its input; the library is reached only with a 16-byte Setup
\* request, a 164-byte Handshake request, a 72-byte wrapped key, and a
\* 16-byte content key.
C15_BufferSizes ==
    /\ \A op \in EngineOps :
          last.op = op
            => /\ last.ret.kind = "bytes" => last.ret.val = ResultLen(op)
               /\ last.err = "none" => last.ret = BytesRet(ResultLen(op))
               /\ last.lib => ~last.null /\ last.len = RequiredLen(op)
    /\ last.op = "Decrypt"
          => /\ last.ret.kind = "bytes" => last.ret.val = last.len
             /\ (last.err = "none" /\ ~last.uaf) => Len(last.ret.data) = last.len
    /\ (last.op = "New" /\ last.lib) => ~last.null /\ last.len = MIRROR_KEY_LEN

\* with the engine ready, a stream decryptor decrypted one 16-byte block
C15_Witness ==
    /\ EngineReady
    /\ CalledOnBuffer("Decrypt")
    /\ last.len = RAOP_AESIV_LEN
    /\ last.err = "none"
    /\ Len(last.ret.data) = RAOP_AESIV_LEN

\* the decryptors other than the one behind handle h
OtherBuffers(h) == BufferIds \ {h}

\* some decryptor other than the one behind handle h is live
OtherLive(h) == \E k \in OtherBuffers(h) : buffers[k].alloc = "live"

\* C16: instances are independent.  An InitStream, Decrypt (of an array)
\* or Destroy on one decryptor leaves every other decryptor's state and the engine as
\* they were, and leaves the process running, so that a live decryptor
\* goes on to produce what it would produce alone.
C16_InstancesIndependent ==
    [][(last'.op \in HandleOps /\ last'.h # NULL /\ ~last'.null /\ OtherLive(last'.h))
        => /\ \A k \in OtherBuffers(last'.h) : buffers'[k] = buffers[k]
           /\ UNCHANGED <<g_fairplay, engines, loggers, nInits>>
           /\ ~fault']_vars

\* a call, with an array that exists, on a handle to a live decryptor
\* changes nothing but that decryptor
LiveCallsIndependent ==
    [][(last'.op \in HandleOps /\ last'.h # NULL /\ ~last'.uaf /\ ~last'.null)
        => /\ \A k \in OtherBuffers(last'.h) : buffers'[k] = buffers[k]
           /\ UNCHANGED <<g_fairplay, engines, loggers, nInits, fault>>]_vars

\* the engines that are allocated and not released
LiveEngines == {i \in EngineIds : engines[i].alloc = "live"}

\* C17: the singleton.  At most one engine is live, and it is the one
\* g_fairplay points to; g_fairplay is non-null exactly from an Init that
\* succeeded to the next Destroy; Init creates an engine only when the
\* pointer is NULL and none is live; an engine is released only by
\* Destroy, while it is live, and never twice.
C17_Singleton ==
    /\ [](/\ Cardinality(LiveEngines) <= 1
          /\ LiveEngines = IF g_fairplay = NULL THEN {} ELSE {g_fairplay}
          /\ \A i \in EngineIds : engines[i].frees <= 1
          /\ last.op = "Destroy" => g_fairplay = NULL
          /\ (last.op = "Init" /\ last.ret = IntRet(0)) => g_fairplay # NULL)
    /\ [][g_fairplay' # g_fairplay
            => \/ /\ last'.op = "Init" /\ last'.ret = IntRet(0) /\ last'.lib
                  /\ g_fairplay = NULL /\ g_fairplay' # NULL
               \/ /\ last'.op = "Destroy" /\ g_fairplay' = NULL]_vars
    /\ [][\A i \in EngineIds :
            /\ (i \in LiveEngines' /\ i \notin LiveEngines)
                  => last'.op = "Init" /\ g_fairplay = NULL /\ LiveEngines = {}
            /\ engines'[i].frees # engines[i].frees
                  => /\ last'.op = "Destroy"
                     /\ i = g_fairplay /\ i \in LiveEngines
                     /\ engines'[i].alloc = "freed" /\ engines'[i].frees = 1]_vars

\* a second engine is live after the first was created, used and released
C17_Witness ==
    /\ g_fairplay = 2
    /\ LiveEngines = {2}
    /\ engines[1].alloc = "freed" /\ engines[1].frees = 1
    /\ last.op = "Setup" /\ last.err = "none"

\* C18: an Init whose engine creation fails (the library was reached and
\* no engine came of it) returns -1, leaves no logger of that attempt
\* allocated, and leaves the pointer NULL with no engine live; while the
\* pointer is NULL, Setup, Handshake and DecryptKey return the null result
\* without reaching the library, Destroy changes nothing, and an Init
\* makes a new creation attempt.
C18_FailedInitLeavesUninitialized ==
    /\ [][(last'.op = "Init" /\ last'.lib /\ engines' = engines)
            => /\ last'.ret = IntRet(-1)
               /\ g_fairplay' = NULL
               /\ nInits' = nInits + 1
               /\ loggers'[nInits'] # "live"
               /\ \A i \in EngineIds \ {nInits'} : loggers'[i] = loggers[i]]_vars
    /\ []((last.op = "Init" /\ last.ret = IntRet(-1))
            => g_fairplay = NULL /\ LiveEngines = {})
    /\ []((g_fairplay = NULL /\ last.op \in EngineOps)
            => last.ret = NullRet /\ ~last.lib /\ last.err = "NotInitialized")
    /\ [][g_fairplay = NULL
            => /\ last'.op = "Destroy"
                  => ~last'.lib /\ UNCHANGED <<g_fairplay, engines, loggers, nInits>>
               /\ last'.op = "Init" => last'.lib /\ nInits' = nInits + 1]_vars

\* after a failed Init whose logger was released, a second Init created
\* the engine
C18_Witness ==
    /\ last.op = "Init" /\ last.lib /\ last.ret = IntRet(0)
    /\ nInits = 2
    /\ loggers[1] = "freed"
    /\ engines[1].alloc = "none"
    /\ g_fairplay = 2

====
